---------------------------- MODULE Spec2Model ----------------------------
(***************************************************************************)
(* A model of dotnet_sce: the extractor of the files embedded in a         *)
(* single-file self-contained .NET executable.                             *)
(*                                                                         *)
(* Bytes are the integers 0..255, a byte string is a sequence of them and  *)
(* a text string is the sequence of its code points.  An Optional value    *)
(* is None (the empty sequence) or Some(x) (a one-element sequence).       *)
(* A call's outcome is a record whose exc field is "none" when the call    *)
(* returned and the exception's class name when it raised.                 *)
(***************************************************************************)
EXTENDS Integers, Sequences, FiniteSets, TLC

VARIABLES
    data,            \* the bytes of the file at bundle_path
    out,             \* outcome of the last direct call of a function of the package
    bundle_offset,   \* Bundle._bundle_offset, None while no Bundle is constructed
    header,          \* Bundle.header
    embedded_files,  \* Bundle.embedded_files
    rb_ret,          \* outcome of the last Bundle.read_bundle call
    calls,           \* number of read_bundle calls made on the Bundle
    written,         \* files written by extract_files, in order
    ex_ret           \* outcome of the last Bundle.extract_files call

vars == <<data, out, bundle_offset, header, embedded_files, rb_ret, calls, written, ex_ret>>

None == <<>>
Some(x) == <<x>>

Byte == 0..255

\* Integers of magnitude 2^24 and above are represented by +-Huge (the model
\* checker's integers are 32 bits wide): the code only compares the decoded
\* values with small constants and uses them as offsets and sizes in files far
\* shorter than Huge.
Huge == 256 * 256 * 256

Min(a, b) == IF a < b THEN a ELSE b

\* ------------------------------------------------------------------------
\* struct.unpack: little-endian integers

HighBytesAll(bs, v) == \A i \in 4..Len(bs) : bs[i] = v

Low24(bs) ==
    (IF Len(bs) >= 1 THEN bs[1] ELSE 0)
    + (IF Len(bs) >= 2 THEN 256 * bs[2] ELSE 0)
    + (IF Len(bs) >= 3 THEN 65536 * bs[3] ELSE 0)

\* struct.unpack("<I"), ("<Q"), ("<H")
UnpackUnsigned(bs) == IF HighBytesAll(bs, 0) THEN Low24(bs) ELSE Huge

\* struct.unpack("<i"), ("<q")
UnpackSigned(bs) ==
    IF bs[Len(bs)] < 128
    THEN UnpackUnsigned(bs)
    ELSE IF HighBytesAll(bs, 255) THEN Low24(bs) - Huge ELSE 0 - Huge

\* ------------------------------------------------------------------------
\* BinaryReader over io.BytesIO(d) at position p

Raise(e, p) == [exc |-> e, val |-> <<>>, pos |-> p, info |-> <<>>]
Return(v, p) == [exc |-> "none", val |-> v, pos |-> p, info |-> <<>>]

\* LET x == e IN Body(x), with e evaluated once however often Body uses x
Bind(e, Body(_)) == CHOOSE v \in {Body(x) : x \in {e}} : TRUE

\* x = Body(r) unless the call whose outcome is r raised, which propagates
Try(e, Body(_)) == Bind(e, LAMBDA r : IF r.exc # "none" THEN r ELSE Body(r))

\* BytesIO.read(n) then the length test of read_bytes
ReadBytes(d, p, n) ==
    Bind(<<p, n, IF p >= Len(d) THEN 0 ELSE Len(d) - p>>, LAMBDA a :
        IF Min(a[2], a[3]) # a[2]
        THEN Raise("EOFError", a[1] + Min(a[2], a[3]))
        ELSE Return(SubSeq(d, a[1] + 1, a[1] + a[2]), a[1] + a[2]))

ReadByte(d, p) == Try(ReadBytes(d, p, 1), LAMBDA r : Return(r.val[1], r.pos))

ReadUnsigned(d, p, w) == Try(ReadBytes(d, p, w), LAMBDA r : Return(UnpackUnsigned(r.val), r.pos))

ReadSigned(d, p, w) == Try(ReadBytes(d, p, w), LAMBDA r : Return(UnpackSigned(r.val), r.pos))

ReadInt32(d, p) == ReadSigned(d, p, 4)
ReadUInt32(d, p) == ReadUnsigned(d, p, 4)
ReadInt64(d, p) == ReadSigned(d, p, 8)
ReadUInt64(d, p) == ReadUnsigned(d, p, 8)

MaxPathLength == 4095

\* The length with the first byte's high bit left in
TwoByteLengthUnmasked(first, second) == second * 128 + first

\* (second << 7) | (first & 0x7F): the two operands share no bit
TwoByteLength(first, second) == second * 128 + (first % 128)

LengthInRange(length) == ~(length <= 0 \/ length > MaxPathLength)

\* The range test that ends read_path_length
CheckedLength(length, p) ==
    IF LengthInRange(length) THEN Return(length, p) ELSE Raise("ValueError", p)

ReadPathLength(d, p) ==
    Try(ReadByte(d, p), LAMBDA r1 :
        IF r1.val < 128 THEN CheckedLength(r1.val, r1.pos)
        ELSE Try(ReadByte(d, r1.pos), LAMBDA r2 :
                IF r2.val >= 128 THEN Raise("ValueError", r2.pos)
                ELSE CheckedLength(TwoByteLength(r1.val, r2.val), r2.pos)))

\* ------------------------------------------------------------------------
\* bytes.decode("utf-8"), strict: the code points, or UnicodeDecodeError

IsCont(b) == b >= 128 /\ b <= 191

\* Number of bytes of the sequence a lead byte opens, 0 for an invalid lead
Utf8Width(b) ==
    IF b < 128 THEN 1
    ELSE IF b >= 194 /\ b <= 223 THEN 2
    ELSE IF b >= 224 /\ b <= 239 THEN 3
    ELSE IF b >= 240 /\ b <= 244 THEN 4
    ELSE 0

\* The range of the second byte, which excludes overlong forms, surrogates
\* and code points above U+10FFFF
SecondOk(lead, b) ==
    CASE lead = 224 -> b >= 160 /\ b <= 191
      [] lead = 237 -> b >= 128 /\ b <= 159
      [] lead = 240 -> b >= 144 /\ b <= 191
      [] lead = 244 -> b >= 128 /\ b <= 143
      [] OTHER -> IsCont(b)

Utf8CodePoint(bs, i, w) ==
    CASE w = 1 -> bs[i]
      [] w = 2 -> (bs[i] % 32) * 64 + (bs[i + 1] % 64)
      [] w = 3 -> (bs[i] % 16) * 4096 + (bs[i + 1] % 64) * 64 + (bs[i + 2] % 64)
      [] w = 4 -> (bs[i] % 8) * 262144 + (bs[i + 1] % 64) * 4096
                  + (bs[i + 2] % 64) * 64 + (bs[i + 3] % 64)

RECURSIVE Utf8From(_, _, _)
Utf8From(bs, i, acc) ==
    IF i > Len(bs) THEN [ok |-> TRUE, str |-> acc]
    ELSE Bind(Utf8Width(bs[i]), LAMBDA w :
            IF w = 0 \/ i + w - 1 > Len(bs) THEN [ok |-> FALSE, str |-> acc]
            ELSE IF w >= 2 /\ ~SecondOk(bs[i], bs[i + 1]) THEN [ok |-> FALSE, str |-> acc]
            ELSE IF \E k \in 2..(w - 1) : ~IsCont(bs[i + k]) THEN [ok |-> FALSE, str |-> acc]
            ELSE Bind(<<i + w, Append(acc, Utf8CodePoint(bs, i, w))>>, LAMBDA n :
                    Utf8From(bs, n[1], n[2])))

DecodeUtf8(bs) == Utf8From(bs, 1, <<>>)

ReadPathString(d, p) ==
    Try(ReadPathLength(d, p), LAMBDA l :
        Try(ReadBytes(d, l.pos, l.val), LAMBDA raw :
            Bind(DecodeUtf8(raw.val), LAMBDA s :
                IF s.ok THEN Return(s.str, raw.pos)
                ELSE Raise("UnicodeDecodeError", raw.pos))))

\* ------------------------------------------------------------------------
\* bundle_header.py

Location(offset, size) == [offset |-> offset, size |-> size]

LocationFromReader(d, p) ==
    Try(ReadInt64(d, p), LAMBDA o :
        Try(ReadInt64(d, o.pos), LAMBDA s :
            Return(Location(o.val, s.val), s.pos)))

BundleHeader(major, minor, embedded, bundle_id, deps, runtime_cfg, flags) ==
    [major_version |-> major, minor_version |-> minor,
     embedded_files_count |-> embedded, bundle_id |-> bundle_id,
     deps_json_location |-> deps, runtime_config_json_location |-> runtime_cfg,
     flags |-> flags]

\* is_valid without the test of minor_version
HeaderIsValidAnyMinor(h) ==
    h.embedded_files_count > 0 /\ h.major_version \in {6, 2}

HeaderIsValid(h) ==
    h.embedded_files_count > 0 /\ h.minor_version = 0 /\ h.major_version \in {6, 2}

\* The reads of from_reader after the validity check
HeaderTail(d, p, major, minor, embedded) ==
    Try(ReadPathString(d, p), LAMBDA id :
        Try(LocationFromReader(d, id.pos), LAMBDA deps :
            Try(LocationFromReader(d, deps.pos), LAMBDA cfg :
                Try(ReadUInt64(d, cfg.pos), LAMBDA flags :
                    Return(BundleHeader(major, minor, embedded, id.val,
                                        deps.val, cfg.val, flags.val),
                           flags.pos)))))

\* BundleHeader.from_reader; the ValueError's message carries the three values
HeaderFromReader(d, p) ==
    Try(ReadUInt32(d, p), LAMBDA major :
        Try(ReadUInt32(d, major.pos), LAMBDA minor :
            Try(ReadInt32(d, minor.pos), LAMBDA embedded :
                IF ~HeaderIsValid(BundleHeader(major.val, minor.val, embedded.val, <<>>,
                                               Location(0, 0), Location(0, 0), 0))
                THEN [exc |-> "ValueError", val |-> <<>>, pos |-> embedded.pos,
                      info |-> <<major.val, minor.val, embedded.val>>]
                ELSE HeaderTail(d, embedded.pos, major.val, minor.val, embedded.val))))

\* ------------------------------------------------------------------------
\* bundle_file_entry.py

FileTypeLast == 6

\* FileType(type_byte), UNKNOWN for a byte that names no member
FileTypeOf(type_byte) == IF type_byte <= FileTypeLast THEN type_byte ELSE 0

BundleFileEntry(offset, size, compressed, ftype, relative) ==
    [offset |-> offset, size |-> size, compressed_size |-> compressed,
     type |-> ftype, relative_path |-> relative]

\* is_valid without the test of compressed_size
EntryIsValidAnyCompressed(e) ==
    e.offset > 0 /\ e.size > 0 /\ e.type # FileTypeLast

EntryIsValid(e) ==
    e.offset > 0 /\ e.size > 0 /\ e.compressed_size >= 0 /\ e.type # FileTypeLast

\* reader.read_int64() if major_version == 6 else -1
ReadCompressed(d, p, major_version) ==
    IF major_version = 6 THEN ReadInt64(d, p) ELSE Return(0 - 1, p)

\* The validity check that ends from_reader; the ValueError's message
\* carries the four fields
CheckedEntry(entry, p) ==
    IF ~EntryIsValid(entry)
    THEN [exc |-> "ValueError", val |-> <<>>, pos |-> p,
          info |-> <<entry.offset, entry.size, entry.compressed_size, entry.type>>]
    ELSE Return(entry, p)

\* BundleFileEntry.from_reader
EntryFromReader(d, p, major_version) ==
    Try(ReadInt64(d, p), LAMBDA offset :
        Try(ReadInt64(d, offset.pos), LAMBDA size :
            Try(ReadCompressed(d, size.pos, major_version), LAMBDA compressed :
                Try(ReadByte(d, compressed.pos), LAMBDA tb :
                    Try(ReadPathString(d, tb.pos), LAMBDA relative :
                        CheckedEntry(BundleFileEntry(offset.val, size.val, compressed.val,
                                                     FileTypeOf(tb.val), relative.val),
                                     relative.pos))))))

\* ------------------------------------------------------------------------
\* os.path (posixpath) on text strings

Sep == 47

\* The components "." and ".."
CurDir == <<46>>
ParentDir == <<46, 46>>

\* os.path.join(a, b)
PathJoin(a, b) ==
    IF b # <<>> /\ b[1] = Sep THEN b
    ELSE IF a = <<>> \/ a[Len(a)] = Sep THEN a \o b
    ELSE a \o <<Sep>> \o b

\* path.split("/")
RECURSIVE SplitFrom(_, _, _, _)
SplitFrom(path, i, cur, acc) ==
    IF i > Len(path) THEN Append(acc, cur)
    ELSE IF path[i] = Sep THEN SplitFrom(path, i + 1, <<>>, Append(acc, cur))
    ELSE SplitFrom(path, i + 1, Append(cur, path[i]), acc)

Components(path) == SplitFrom(path, 1, <<>>, <<>>)

\* The components left once "", "." and ".." are resolved, as the file system
\* resolves them (no symbolic links); a relative path may keep leading ".."
RECURSIVE ResolveFrom(_, _, _, _)
ResolveFrom(comps, i, isabs, stack) ==
    IF i > Len(comps) THEN stack
    ELSE LET c == comps[i]
         IN  IF c = <<>> \/ c = CurDir THEN ResolveFrom(comps, i + 1, isabs, stack)
             ELSE IF c = ParentDir
             THEN IF stack # <<>> /\ stack[Len(stack)] # ParentDir
                  THEN ResolveFrom(comps, i + 1, isabs, SubSeq(stack, 1, Len(stack) - 1))
                  ELSE IF isabs THEN ResolveFrom(comps, i + 1, isabs, stack)
                  ELSE ResolveFrom(comps, i + 1, isabs, Append(stack, c))
             ELSE ResolveFrom(comps, i + 1, isabs, Append(stack, c))

IsAbs(path) == path # <<>> /\ path[1] = Sep

Resolve(path) == [abs |-> IsAbs(path), comps |-> ResolveFrom(Components(path), 1, IsAbs(path), <<>>)]

\* The file at path lies in the directory dir or below it (both taken from the
\* same working directory)
Inside(path, dir) ==
    LET rp == Resolve(path)
        rd == Resolve(dir)
    IN  /\ rp.abs = rd.abs
        /\ Len(rp.comps) > Len(rd.comps)
        /\ SubSeq(rp.comps, 1, Len(rd.comps)) = rd.comps

\* ------------------------------------------------------------------------
\* zlib.decompress: the stream's header is checked as zlib checks it; the
\* deflate blocks after it are opaque and taken as well-formed

ZlibHeaderOk(bs) ==
    /\ Len(bs) >= 2
    /\ bs[1] % 16 = 8
    /\ bs[1] \div 16 <= 7
    /\ (bs[2] \div 32) % 2 = 0
    /\ (bs[1] * 256 + bs[2]) % 31 = 0

\* A raw deflate stream opens with a block whose type is not the reserved one
RawDeflateOk(bs) == Len(bs) >= 1 /\ (bs[1] \div 2) % 4 # 3

\* zlib.decompress(compressed), then zlib.decompress(compressed, -MAX_WBITS)
Decompress(bs) ==
    IF ZlibHeaderOk(bs) THEN [exc |-> "none", codec |-> "zlib"]
    ELSE IF RawDeflateOk(bs) THEN [exc |-> "none", codec |-> "raw"]
    ELSE [exc |-> "zlib.error", codec |-> "none"]

\* ------------------------------------------------------------------------
\* bundle.py

\* fh.read(n) on the file: up to n bytes, the rest of the file for n < 0
FileRead(d, p, n) ==
    LET avail == IF p >= Len(d) THEN 0 ELSE Len(d) - p
    IN  IF n < 0 THEN SubSeq(d, p + 1, p + avail)
        ELSE SubSeq(d, p + 1, p + Min(n, avail))

\* The 35 bytes of test_guid_bytes
Marker ==
    <<51, 56, 99, 99, 56, 50, 55, 45, 101, 51, 52, 102,
      45, 52, 52, 53, 51, 45, 57, 100, 102, 52, 45, 49,
      101, 55, 57, 54, 101, 57, 102, 49, 100, 48, 55>>

\* data.find(m): the first index at which m occurs in d, -1 when it does not
Find(d, m) ==
    LET hits == {i \in 0..(Len(d) - Len(m)) : SubSeq(d, i + 1, i + Len(m)) = m}
    IN  IF hits = {} THEN 0 - 1 ELSE CHOOSE i \in hits : \A j \in hits : i <= j

MinFileLength == 64
PeOffsetAt == 60
MachineI386 == 332

\* guid_bundle_offset
PreambleSize(pe_machine_type) ==
    IF pe_machine_type = MachineI386 THEN 1 + 8 + 32 + 8 ELSE 1 + 16 + 32 + 8

\* struct.unpack_from on w bytes at offset off >= 0
UnpackFromOk(d, off, w) == off + w <= Len(d)

\* find_bundle_offset from "idx = data.find(test_guid_bytes)" on
FindFromMarker(d, idx, guid_bundle_offset) ==
    IF idx = 0 - 1 THEN Return(None, 0)
    ELSE IF idx - guid_bundle_offset < 0 \/ idx - guid_bundle_offset + 4 > Len(d)
    THEN Return(None, 0)
    ELSE Return(Some(UnpackSigned(SubSeq(d, idx - guid_bundle_offset + 1,
                                         idx - guid_bundle_offset + 4))), 0)

\* Bundle.find_bundle_offset: val is None or Some(offset)
FindBundleOffset(d) ==
    IF Len(d) < MinFileLength THEN Return(None, 0)
    ELSE Bind(UnpackUnsigned(SubSeq(d, PeOffsetAt + 1, PeOffsetAt + 4)), LAMBDA pe_offset :
            IF ~UnpackFromOk(d, pe_offset + 4, 2) THEN Raise("struct.error", 0)
            ELSE Bind(<<UnpackUnsigned(SubSeq(d, pe_offset + 5, pe_offset + 6)),
                        Find(d, Marker)>>, LAMBDA m :
                    FindFromMarker(d, m[2], PreambleSize(m[1]))))

\* The loop of read_bundle: k entries still to read at position p, files the
\* list appended to
RECURSIVE ReadEntries(_, _, _, _, _)
ReadEntries(d, p, major_version, k, files) ==
    IF k <= 0 THEN [exc |-> "none", files |-> files]
    ELSE Bind(EntryFromReader(d, p, major_version), LAMBDA e :
            IF e.exc # "none" THEN [exc |-> e.exc, files |-> files]
            ELSE Bind(<<k - 1, Append(files, e.val)>>, LAMBDA n :
                    ReadEntries(d, e.pos, major_version, n[1], n[2])))

\* Bundle.read_bundle on a Bundle whose attributes are offset, hdr and files:
\* the value returned (or the exception raised) and the attributes afterwards
ReadBundleOp(d, offset, hdr, files) ==
    IF offset < 0
    THEN [ret |-> "ValueError", header |-> hdr, embedded_files |-> files]
    ELSE Bind(HeaderFromReader(d, offset), LAMBDA h :
            IF h.exc # "none"
            THEN [ret |-> "False", header |-> hdr, embedded_files |-> files]
            ELSE Bind(ReadEntries(d, h.pos, h.val.major_version,
                                  h.val.embedded_files_count, files), LAMBDA r :
                    [ret |-> IF r.exc = "none" THEN "True" ELSE "False",
                     header |-> Some(h.val), embedded_files |-> r.files]))

\* entry.compressed_size and entry.compressed_size != 0
TakesDecompressionPath(entry) == entry.compressed_size # 0

\* One iteration of the loop of extract_files: the file written, or the
\* exception raised
ExtractEntry(d, entry, output_directory) ==
    IF TakesDecompressionPath(entry)
    THEN Bind(FileRead(d, entry.offset, entry.compressed_size), LAMBDA compressed :
            Bind(Decompress(compressed), LAMBDA z :
                [exc |-> z.exc, path |-> PathJoin(output_directory, entry.relative_path),
                 entry |-> entry, mode |-> "decompress", codec |-> z.codec,
                 content |-> compressed]))
    ELSE [exc |-> "none", path |-> PathJoin(output_directory, entry.relative_path),
          entry |-> entry, mode |-> "copy", codec |-> "none",
          content |-> FileRead(d, entry.offset, entry.size)]

\* Bundle.extract_files: the files written before it returned or raised
RECURSIVE ExtractFrom(_, _, _, _, _)
ExtractFrom(d, files, i, output_directory, done) ==
    IF i > Len(files) THEN [ret |-> "ok", written |-> done]
    ELSE Bind(ExtractEntry(d, files[i], output_directory), LAMBDA w :
            IF w.exc # "none" THEN [ret |-> w.exc, written |-> done]
            ELSE Bind(<<i + 1, Append(done, w)>>, LAMBDA n :
                    ExtractFrom(d, files, n[1], output_directory, n[2])))

ExtractFilesOp(d, files, output_directory) == ExtractFrom(d, files, 1, output_directory, <<>>)

\* ------------------------------------------------------------------------
\* cli.py

\* The attributes of the namespace parse_args returns
Namespace(file, output_dir, offset) == [file |-> file, output_dir |-> output_dir, offset |-> offset]

HasAttr(ns, name) == name \in DOMAIN ns

\* main from "bundle = Bundle(args.input_path, offset)" on
MainRun(args, d, offset) ==
    IF ~HasAttr(args, "input_path") THEN Raise("AttributeError", 0)
    ELSE Bind(ReadBundleOp(d, offset, None, <<>>), LAMBDA rb :
            IF rb.ret = "ValueError" THEN Raise("ValueError", 0)
            ELSE IF rb.ret = "False" THEN Return(1, 0)
            ELSE Bind(ExtractFilesOp(d, rb.embedded_files, args.output_dir), LAMBDA ex :
                    IF ex.ret # "ok" THEN Raise(ex.ret, 0) ELSE Return(0, 0)))

\* cli.main on the namespace of a well-formed argument list, d the bytes of
\* the file the arguments name
Main(args, d) ==
    IF args.offset = None
    THEN IF ~HasAttr(args, "input_path") THEN Raise("AttributeError", 0)
         ELSE Try(FindBundleOffset(d), LAMBDA found :
                IF found.val = None THEN Return(2, 0)
                ELSE MainRun(args, d, found.val[1]))
    ELSE MainRun(args, d, args.offset[1])

\* ------------------------------------------------------------------------
\* Input files: the layouts the readers above parse, written out

\* struct.pack of n, |n| < 2^23, as w little-endian bytes (two's complement)
PackLE(n, w) ==
    LET m == n % Huge
    IN  [i \in 1..w |->
            CASE i = 1 -> m % 256
              [] i = 2 -> (m \div 256) % 256
              [] i = 3 -> m \div 65536
              [] OTHER -> IF n < 0 THEN 255 ELSE 0]

\* The 1-2 byte length prefix of a path string of n bytes, 0 <= n < 16384
PackPathLength(n) == IF n < 128 THEN <<n>> ELSE <<128 + (n % 128), n \div 128>>

\* A path string whose bytes are bs
PackPathString(bs) == PackPathLength(Len(bs)) \o bs

\* The header's fields after the first three: bundle_id, two locations, flags
PackHeaderTail(bundle_id) ==
    PackPathString(bundle_id) \o PackLE(0, 8) \o PackLE(0, 8)
    \o PackLE(0, 8) \o PackLE(0, 8) \o PackLE(0, 8)

PackHeader(major, minor, count, bundle_id) ==
    PackLE(major, 4) \o PackLE(minor, 4) \o PackLE(count, 4) \o PackHeaderTail(bundle_id)

\* A file entry as the manifest of the given major version lays it out
PackEntry(major, e) ==
    PackLE(e.offset, 8) \o PackLE(e.size, 8)
    \o (IF major = 6 THEN PackLE(e.compressed_size, 8) ELSE <<>>)
    \o <<e.type>> \o PackPathString(e.relative_path)

RECURSIVE PackEntries(_, _, _)
PackEntries(major, es, i) ==
    IF i > Len(es) THEN <<>> ELSE PackEntry(major, es[i]) \o PackEntries(major, es, i + 1)

\* The embedded files' bytes, which precede the manifest: a pad byte, "HELLO"
\* at 1, a zlib stream's first bytes at 6 (the tail of which, at 7, is a raw
\* deflate stream), and at 9 a byte that opens no deflate block
Payload == <<0, 72, 69, 76, 76, 79, 120, 156, 3, 7, 0>>

BundleStart == Len(Payload)

\* A file holding a manifest of Len(es) entries at BundleStart
PackBundleFile(major, es) ==
    Payload \o PackHeader(major, 0, Len(es), <<120>>) \o PackEntries(major, es, 1)

\* Where the first entry of such a file starts
FirstEntryAt == BundleStart + Len(PackHeader(6, 0, 1, <<120>>))

\* A host executable: the 64-byte DOS header with the PE header's offset at
\* 0x3C (the marker inside it when early >= 0), the PE signature and machine
\* type at 64, a 32-bit field holding stored, then the marker gap bytes after
\* that field's start (no marker when gap = 0)
PackHost(pe_offset, machine, early, gap, stored) ==
    LET dos == [i \in 1..60 |->
                    IF early >= 0 /\ i > early /\ i <= early + Len(Marker)
                    THEN Marker[i - early] ELSE 0]
    IN  dos \o PackLE(pe_offset, 4) \o <<80, 69, 0, 0>> \o PackLE(machine, 2)
        \o PackLE(stored, 4)
        \o (IF gap = 0 THEN <<>> ELSE [i \in 1..(gap - 4) |-> 0] \o Marker)

\* ------------------------------------------------------------------------
\* State shared by the specifications

NoCall == [op |-> "none", args |-> <<>>, exc |-> "none", val |-> <<>>, pos |-> 0, info |-> <<>>]

Called(op, args, r) ==
    [op |-> op, args |-> args, exc |-> r.exc, val |-> r.val, pos |-> r.pos, info |-> r.info]

NoExtract == [ret |-> "none", output_directory |-> <<>>]

\* No Bundle object exists
NoBundle ==
    /\ bundle_offset = None
    /\ header = None
    /\ embedded_files = <<>>
    /\ rb_ret = "none"
    /\ calls = 0
    /\ written = <<>>
    /\ ex_ret = NoExtract

bundleVars == <<bundle_offset, header, embedded_files, rb_ret, calls, written, ex_ret>>

\* ------------------------------------------------------------------------
\* SpecPathLength: read_path_length on every stream of one or two bytes

InitPathLength ==
    /\ data \in {<<b0>> : b0 \in Byte} \cup {<<b0, b1>> : b0 \in Byte, b1 \in Byte}
    /\ out = NoCall
    /\ NoBundle

PathLengthCall ==
    /\ out.op = "none"
    /\ out' = Called("read_path_length", <<>>, ReadPathLength(data, 0))
    /\ UNCHANGED <<data, bundleVars>>

NextPathLength == PathLengthCall

SpecPathLength == InitPathLength /\ [][NextPathLength]_vars

\* C2: read_path_length decodes the prefix b0 [b1]: a first byte with its high
\* bit clear is the length and is the only byte consumed; otherwise a second
\* byte with its high bit set is a format error and else the length is
\* (b1 << 7) | (b0 & 0x7F); a length <= 0 or > 4095 is a format error.  0x00
\* fails, 0x7F gives 127 and [0x81, 0x01] gives 129.
C2_PathLengthDecoding ==
    out.op = "read_path_length" =>
        /\ Len(data) = 2 =>
            LET b0 == data[1]
                b1 == data[2]
                two == b1 * 128 + (b0 - 128)
            IN  IF b0 < 128
                THEN /\ out.pos = 1
                     /\ IF b0 = 0 THEN out.exc = "ValueError"
                        ELSE out.exc = "none" /\ out.val = b0
                ELSE IF b1 >= 128 THEN out.exc = "ValueError"
                ELSE IF two <= 0 \/ two > 4095 THEN out.exc = "ValueError"
                ELSE out.exc = "none" /\ out.val = two /\ out.pos = 2
        /\ data = <<0>> => out.exc = "ValueError"
        /\ data = <<127>> => out.exc = "none" /\ out.val = 127
        /\ data = <<129, 1>> => out.exc = "none" /\ out.val = 129

\* A two-byte prefix was decoded: [0x81, 0x01] gave 129
C2_Witness ==
    /\ out.op = "read_path_length"
    /\ data = <<129, 1>>
    /\ out.exc = "none"
    /\ out.val = 129
    /\ out.pos = 2

\* ------------------------------------------------------------------------
\* SpecHeader: BundleHeader.from_reader on a stream that opens with a triple

HeaderMajors == {0, 1, 2, 3, 6, 7}
HeaderMinors == {0, 1}
HeaderCounts == {0 - 2, 0 - 1, 0, 1, 2}

\* What follows the triple: nothing, a well-formed rest of the header, a
\* bundle_id of length zero, a truncated rest
HeaderTails ==
    {<<>>, PackHeaderTail(<<120>>), PackHeaderTail(<<>>), PackPathString(<<120, 121>>)}

InitHeader ==
    /\ \E major \in HeaderMajors, minor \in HeaderMinors, count \in HeaderCounts,
          tail \in HeaderTails :
            data = PackLE(major, 4) \o PackLE(minor, 4) \o PackLE(count, 4) \o tail
    /\ out = NoCall
    /\ NoBundle

HeaderCall ==
    /\ out.op = "none"
    /\ out' = Called("BundleHeader.from_reader", <<>>, HeaderFromReader(data, 0))
    /\ UNCHANGED <<data, bundleVars>>

NextHeader == HeaderCall

SpecHeader == InitHeader /\ [][NextHeader]_vars

\* C1: from_reader reads major, minor and count and goes on to read bundle_id
\* exactly when major is 2 or 6, minor is 0 and count > 0; for every other
\* triple it raises the ValueError carrying the triple, with exactly those 12
\* bytes consumed.
C1_HeaderValidity ==
    out.op = "BundleHeader.from_reader" =>
        LET major == UnpackUnsigned(SubSeq(data, 1, 4))
            minor == UnpackUnsigned(SubSeq(data, 5, 8))
            count == UnpackSigned(SubSeq(data, 9, 12))
        IN  IF (major = 2 \/ major = 6) /\ minor = 0 /\ count > 0
            THEN /\ out.info = <<>>
                 /\ Len(data) > 12 => out.pos > 12
            ELSE /\ out.exc = "ValueError"
                 /\ out.info = <<major, minor, count>>
                 /\ out.pos = 12

\* An invalid triple (minor = 1) was rejected with bytes left unread
C1_Witness ==
    /\ out.op = "BundleHeader.from_reader"
    /\ UnpackUnsigned(SubSeq(data, 1, 4)) = 6
    /\ UnpackUnsigned(SubSeq(data, 5, 8)) = 1
    /\ UnpackSigned(SubSeq(data, 9, 12)) = 1
    /\ Len(data) > 12
    /\ out.exc = "ValueError"
    /\ out.pos = 12

\* ------------------------------------------------------------------------
\* SpecLocate: Bundle.find_bundle_offset on host executables

HostPeOffsets == {0, 64, 69, 200000}
HostMachines == {MachineI386, 34404}
HostEarly == {0 - 1, 0, 10}
HostGaps == {0, 49, 57}
HostStored == {0 - 70000, 0 - 1, 100}

InitLocate ==
    /\ data \in {<<>>, [i \in 1..63 |-> 0]}
                \cup {PackHost(pe, machine, early, gap, stored) :
                        pe \in HostPeOffsets, machine \in HostMachines,
                        early \in HostEarly, gap \in HostGaps, stored \in HostStored}
    /\ out = NoCall
    /\ NoBundle

FindCall ==
    /\ out.op = "none"
    /\ out' = Called("find_bundle_offset", <<>>, FindBundleOffset(data))
    /\ UNCHANGED <<data, bundleVars>>

NextLocate == FindCall

SpecLocate == InitLocate /\ [][NextLocate]_vars

\* C5: find_bundle_offset never raises; it returns nothing for a buffer
\* shorter than 0x40 bytes, an absent marker, or a target = match_index -
\* preamble_size that is negative or within 4 bytes of the end, and otherwise
\* the signed 32-bit integer at target, preamble_size being 49 when the u16 at
\* header_pointer + 4 is 0x14C and 57 otherwise.
C5_LocateNeverRaises ==
    out.op = "find_bundle_offset" =>
        /\ out.exc = "none"
        /\ LET pe == UnpackUnsigned(SubSeq(data, 61, 64))
               machine == UnpackUnsigned(SubSeq(data, pe + 5, pe + 6))
               idx == Find(data, Marker)
               target == idx - (IF machine = 332 THEN 49 ELSE 57)
           IN  IF Len(data) < 64 \/ idx < 0 \/ target < 0 \/ target + 4 > Len(data)
               THEN out.val = None
               ELSE out.val = Some(UnpackSigned(SubSeq(data, target + 1, target + 4)))

\* ------------------------------------------------------------------------
\* Spec: a Bundle over a file holding a manifest, and the command line

MaxEntries == 2
MaxCalls == 2

Entry(offset, size, compressed, ftype, relative) ==
    BundleFileEntry(offset, size, compressed, ftype, relative)

\* The entries the manifests are made of: "HELLO" stored raw as a/b; a zlib
\* stream of an unknown type as c; an entry of offset 0; one of type LAST; one
\* whose size runs past the end of the file; an absolute path; a path that
\* climbs out; a compressed entry whose bytes open no deflate stream
EntryKinds ==
    { Entry(1, 5, 0, 1, <<97, Sep, 98>>),
      Entry(6, 9, 3, 9, <<99>>),
      Entry(0, 5, 0, 1, <<97>>),
      Entry(1, 5, 0, FileTypeLast, <<97>>),
      Entry(3, 500, 0, 1, <<116>>),
      Entry(1, 5, 0, 3, <<Sep, 120>>),
      Entry(7, 9, 2, 1, ParentDir \o <<Sep, 120>>),
      Entry(9, 4, 1, 1, <<122>>) }

EntryLists == UNION {[1..n -> EntryKinds] : n \in 1..MaxEntries}

Majors == {2, 3, 6}

\* The offsets a Bundle is constructed with: the manifest's, a negative one,
\* one past the end of the file
BundleOffsets(d) == {BundleStart, 0 - 1, Len(d) + 4}

OutputDirs == {<<Sep, 111>>}

Init ==
    /\ \E major \in Majors, es \in EntryLists : data = PackBundleFile(major, es)
    /\ out = NoCall
    /\ NoBundle

\* BundleFileEntry.from_reader called on a reader at the first entry
EntryCall(major_version) ==
    /\ out.op = "none"
    /\ bundle_offset = None
    /\ out' = Called("BundleFileEntry.from_reader", <<FirstEntryAt, major_version>>,
                     EntryFromReader(data, FirstEntryAt, major_version))
    /\ UNCHANGED <<data, bundleVars>>

\* cli.main
MainCall(args) ==
    /\ out.op = "none"
    /\ bundle_offset = None
    /\ out' = Called("main", <<args>>, Main(args, data))
    /\ UNCHANGED <<data, bundleVars>>

\* Bundle.__init__
NewBundle(offset) ==
    /\ out.op = "none"
    /\ bundle_offset = None
    /\ bundle_offset' = Some(offset)
    /\ header' = None
    /\ embedded_files' = <<>>
    /\ UNCHANGED <<data, out, rb_ret, calls, written, ex_ret>>

\* Bundle.read_bundle
ReadBundle ==
    /\ bundle_offset # None
    /\ ex_ret.ret = "none"
    /\ calls < MaxCalls
    /\ \E r \in {ReadBundleOp(data, bundle_offset[1], header, embedded_files)} :
            /\ rb_ret' = r.ret
            /\ header' = r.header
            /\ embedded_files' = r.embedded_files
    /\ calls' = calls + 1
    /\ UNCHANGED <<data, out, bundle_offset, written, ex_ret>>

\* Bundle.extract_files
ExtractFiles(output_directory) ==
    /\ bundle_offset # None
    /\ ex_ret.ret = "none"
    /\ \E r \in {ExtractFilesOp(data, embedded_files, output_directory)} :
            /\ written' = r.written
            /\ ex_ret' = [ret |-> r.ret, output_directory |-> output_directory]
    /\ UNCHANGED <<data, out, bundle_offset, header, embedded_files, rb_ret, calls>>

Next ==
    \/ \E major_version \in Majors : EntryCall(major_version)
    \/ \E offset \in {None, Some(BundleStart), Some(0 - 1)}, dir \in OutputDirs :
            MainCall(Namespace("app", dir, offset))
    \/ \E offset \in BundleOffsets(data) : NewBundle(offset)
    \/ ReadBundle
    \/ \E dir \in OutputDirs : ExtractFiles(dir)

Spec == Init /\ [][Next]_vars

\* C3: from_reader reads compressed_size from the stream only when
\* major_version is 6; for any other major version it sets it to -1 without
\* consuming bytes (the type byte is the one after size) and never returns an
\* entry; read_bundle returns False whenever the valid header it parsed has
\* major_version 2.
C3_NonSixAlwaysRejected ==
    /\ out.op = "BundleFileEntry.from_reader" =>
        LET p == out.args[1]
            fromStream == UnpackSigned(SubSeq(data, p + 17, p + 24))
        IN  IF out.args[2] = 6
            THEN /\ out.info # <<>> =>
                        /\ out.info[3] = fromStream
                        /\ out.info[4] = FileTypeOf(data[p + 25])
                        /\ data[p + 26] < 128 => out.pos = p + 26 + data[p + 26]
                 /\ out.exc = "none" =>
                        /\ out.val.compressed_size = fromStream
                        /\ data[p + 26] < 128 => out.pos = p + 26 + data[p + 26]
            ELSE /\ out.exc # "none"
                 /\ out.info # <<>> =>
                        /\ out.info[3] = 0 - 1
                        /\ out.info[4] = FileTypeOf(data[p + 17])
                        /\ data[p + 18] < 128 => out.pos = p + 18 + data[p + 18]
    /\ (rb_ret # "none" /\ header # None /\ header[1].major_version = 2) =>
        /\ rb_ret = "False"
        /\ embedded_files = <<>>

\* read_bundle returned False on a manifest of major version 2 whose first
\* entry has a positive offset and size and a type other than LAST
C3_Witness ==
    /\ calls = 1
    /\ rb_ret = "False"
    /\ header # None
    /\ header[1].major_version = 2
    /\ UnpackSigned(SubSeq(data, FirstEntryAt + 1, FirstEntryAt + 8)) > 0
    /\ UnpackSigned(SubSeq(data, FirstEntryAt + 9, FirstEntryAt + 16)) > 0
    /\ data[FirstEntryAt + 17] = 1

\* C4: extract_files takes the decompression path only for a positive
\* compressed_size; an entry whose compressed_size is 0 or -1 is extracted by
\* reading exactly size bytes at entry.offset and writing them verbatim.
C4_CopyExactlySize ==
    \A i \in 1..Len(written) :
        LET w == written[i]
            e == w.entry
        IN  /\ w.mode = "decompress" => e.compressed_size > 0
            /\ e.compressed_size \in {0, 0 - 1} =>
                    /\ w.mode = "copy"
                    /\ Len(w.content) = e.size
                    /\ w.content = SubSeq(data, e.offset + 1, e.offset + e.size)

\* C6: when read_bundle returns False the Bundle keeps no partial state: header
\* is not set and embedded_files holds none of the entries parsed.
C6_NoPartialState ==
    rb_ret = "False" => header = None /\ embedded_files = <<>>

\* C7: main returns 0, 1 or 2 for every well-formed argument list: 2 when no
\* offset is given and none is found, 1 when read_bundle fails, 0 otherwise.
C7_ExitStatus ==
    out.op = "main" =>
        /\ out.exc = "none"
        /\ out.val \in {0, 1, 2}
        /\ (out.val = 2) <=> (out.args[1].offset = None
                               /\ FindBundleOffset(data) = Return(None, 0))

\* C8: whenever read_bundle returns True, after any sequence of read_bundle
\* calls, embedded_files holds exactly header.embedded_files_count entries:
\* the manifest's entries in manifest order.
C8_ExactlyCountEntries ==
    rb_ret = "True" =>
        /\ Len(embedded_files) = header[1].embedded_files_count
        /\ embedded_files =
             ReadEntries(data, FirstEntryAt, header[1].major_version,
                         header[1].embedded_files_count, <<>>).files

\* C9: read_bundle returns True or False for every bundle offset, negative
\* ones and ones past the end of the file included, and never raises.
C9_ReadBundleNeverRaises ==
    calls > 0 => rb_ret \in {"True", "False"}

\* C10: every file extract_files writes lies inside output_directory.
C10_WritesInsideOutputDir ==
    \A i \in 1..Len(written) : Inside(written[i].path, ex_ret.output_directory)

=============================================================================
